---- MODULE Spec2Model ----
(***************************************************************************)
(* Groot: a minimal version-control engine (src/Groot.mjs and its          *)
(* TypeScript variant src/unnamed/part_000).                               *)
(*                                                                         *)
(* The repository on disk is three things: the objects directory (one file *)
(* per digest), the HEAD file and the index file.  Every command is a      *)
(* process that makes a handle and runs one method; every awaited fs call  *)
(* of the method is one step, so that other processes interleave between   *)
(* the steps and a process may die between any two of them.                *)
(*                                                                         *)
(* Text is a sequence of integer tokens.  A digest is a positive integer.  *)
(*                                                                         *)
(* The constructor starts init and does not wait for it: init's awaited    *)
(* calls are steps of their own, taken beside those of the method.         *)
(***************************************************************************)
EXTENDS Integers, Sequences, FiniteSets

\* ---------------------------------------------------------------- bounds

MaxOps == 3          \* add and commit commands started, processes side by side
MaxOpsSeq == 4       \* add and commit commands started, one after the other
MaxOpsInit == 3      \* add and commit commands started, from an empty directory
MaxOpsCorrupt == 2   \* add and commit commands started, on a disk that gets damaged

Procs == {1, 2}      \* independent processes invoking commands
Paths == {1, 2}      \* working-tree paths: 1 = "a.txt", 2 = "b.txt"
TimeStamps == {1}    \* what the wall clock may show when commit reads it
Messages == {1}      \* commit messages

\* What a working-tree file may hold when add reads it: the empty file, or a
\* file of one line.  NoFile: the path does not exist.
FileContents == {<< >>, <<1>>}
NoFile == <<0>>

\* ------------------------------------------------------- values and text

EmptyString == 0     \* "", what init writes to HEAD
Null == -1           \* null
OpenBrace == 9       \* the token that opens a serialized commit record

\* JavaScript truthiness of a digest-or-null value: `while (currentCommitHash)`,
\* `if (commitData.parent)`.
TruthyRef(h) == h # Null /\ h # EmptyString

RECURSIVE StringifyFiles(_)
\* JSON.stringify of a list of {path, hash} entries.
StringifyFiles(files) ==
    IF files = << >> THEN << >>
    ELSE <<files[1].path, files[1].hash>> \o StringifyFiles(Tail(files))

\* JSON.parse of an index text.
ParseFiles(text) ==
    [i \in 1..(Len(text) \div 2) |-> [path |-> text[2 * i - 1], hash |-> text[2 * i]]]

\* JSON.stringify(commitData): keys in the order the literal gives them.
StringifyCommit(c) ==
    <<OpenBrace, c.timeStamp, c.message, Len(c.files)>>
        \o StringifyFiles(c.files) \o <<c.parent>>

\* Whether JSON.parse of the text yields a commit record.
IsCommitText(text) ==
    /\ Len(text) >= 5
    /\ text[1] = OpenBrace
    /\ text[4] >= 0
    /\ Len(text) = 5 + 2 * text[4]

\* JSON.parse of a commit text.
ParseCommit(text) ==
    [timeStamp |-> text[2],
     message   |-> text[3],
     files     |-> ParseFiles(SubSeq(text, 5, Len(text) - 1)),
     parent    |-> text[Len(text)]]

\* ----------------------------------------------------------------- state

VARIABLES
    impl,       \* which source file runs: "mjs" (Groot.mjs) or "ts" (part_000)
    objects,    \* .groot/objects: digest -> text
    HEAD,       \* .groot/HEAD: EmptyString or a digest
    index,      \* .groot/index: the text of the staging area
    sha1,       \* the graph of SHA-1 so far: sha1[d] is the text with digest d
    pc,         \* per process: the awaited call it is at
    loc,        \* per process: the locals of the running method
    out,        \* what the operation that just finished reported
    added,      \* history: the texts whose object write by add completed
    staged,     \* history: the entries whose index write by add completed
    history,    \* history: digests of the commits that ran to completion
    interrupted,\* history: a process died inside commit
    fuel,       \* add and commit commands that may still be started
    fsys,       \* which of .groot/objects, .groot/HEAD, .groot/index exist
    ipc,        \* per process: the awaited call its handle's init is at
    killed      \* history: a process died

vars == <<impl, objects, HEAD, index, sha1, pc, loc, out,
          added, staged, history, interrupted, fuel, fsys, ipc, killed>>

repo == <<objects, HEAD, index, fsys>>
\* The history variables: they record what happened and steer nothing.
ghost == <<added, staged, history, interrupted, killed>>

\* What init makes: the objects directory, the HEAD file, the index file.
AllFiles == {"objects", "HEAD", "index"}

NoLoc == [file |-> 0, fileData |-> << >>, fileHash |-> 0, index |-> << >>,
          parent |-> Null, commitHash |-> 0, message |-> 0]

NoOut == [op |-> "none", status |-> "ok", digest |-> 0, visited |-> << >>,
          files |-> << >>, failed |-> FALSE]

\* An awaited call of method `op` rejects and nothing catches it: the method
\* ends there with the error.
Throws(p, op, error) ==
    /\ pc' = [pc EXCEPT ![p] = "idle"]
    /\ loc' = [loc EXCEPT ![p] = NoLoc]
    /\ out' = [NoOut EXCEPT !.op = op, !.status = error, !.failed = TRUE]

\* ------------------------------------------------------------- hashObject

\* The table with the text entered, if it was not yet.
Intern(table, text) ==
    IF \E d \in 1..Len(table) : table[d] = text THEN table
    ELSE Append(table, text)

\* A colliding digest function: every text gets the same digest.
hashObject_collide(content) == 1

\* crypto.createHash("sha1").update(content).digest("hex"): the same text
\* always gets the same digest, two texts never the same one.
hashObject(content) ==
    LET table == Intern(sha1, content)
    IN  CHOOSE d \in 1..Len(table) : table[d] = content

\* ------------------------------------------------------------------ reads

Stored(h) == h \in DOMAIN objects

\* getCurrentHead: null when the file cannot be read; else Groot.mjs returns
\* the file's text as it is, part_000 trims it and turns the empty text into
\* null.
getCurrentHead ==
    IF "HEAD" \notin fsys THEN Null
    ELSE IF impl = "ts" /\ HEAD = EmptyString THEN Null ELSE HEAD

CommitObjects == {h \in DOMAIN objects : IsCommitText(objects[h])}

InCommit(p) == pc[p] \in {"commit_readHead", "commit_writeObject",
                          "commit_writeHead", "commit_clearIndex"}
InAdd(p) == pc[p] \in {"add_writeObject", "add_readIndex", "add_writeIndex"}

\* ------------------------------------------------------------------- Init

\* A freshly initialised repository: init made the objects directory, wrote
\* "" to HEAD and "[]" to the index.
Fresh ==
    /\ impl \in {"mjs", "ts"}
    /\ objects = << >>
    /\ HEAD = EmptyString
    /\ index = StringifyFiles(<< >>)
    /\ sha1 = << >>
    /\ pc = [p \in Procs |-> "idle"]
    /\ loc = [p \in Procs |-> NoLoc]
    /\ out = NoOut
    /\ added = {}
    /\ staged = {}
    /\ history = << >>
    /\ interrupted = FALSE
    /\ fsys = AllFiles
    /\ ipc = [p \in Procs |-> "off"]
    /\ killed = FALSE

Init == Fresh /\ fuel = MaxOps

InitSeq == Fresh /\ fuel = MaxOpsSeq

\* -------------------------------------------------------------------- add

\* The same with a readFile that answers nothing for a path that does not
\* exist, where the code's throws: add goes on with it.
AddReadFile_noThrow(p, file, data) ==
    /\ pc[p] = "idle"
    /\ fuel > 0
    /\ fuel' = fuel - 1
    /\ sha1' = Intern(sha1, data)
    /\ loc' = [loc EXCEPT ![p] = [NoLoc EXCEPT !.file = file,
                                               !.fileData = data,
                                               !.fileHash = hashObject(data)]]
    /\ pc' = [pc EXCEPT ![p] = "add_writeObject"]
    /\ out' = NoOut
    /\ UNCHANGED <<impl, repo, ghost, ipc>>

\* add, up to its first write: read the file and hash it.  A path that does
\* not exist makes readFile throw before anything is written.
AddReadFile(p, file, data) ==
    /\ pc[p] = "idle"
    /\ fuel > 0
    /\ fuel' = fuel - 1
    /\ IF data = NoFile
       THEN /\ out' = [NoOut EXCEPT !.op = "add", !.status = "ENOENT",
                                     !.failed = TRUE]
            /\ UNCHANGED <<sha1, pc, loc>>
       ELSE /\ sha1' = Intern(sha1, data)
            /\ loc' = [loc EXCEPT ![p] = [NoLoc EXCEPT !.file = file,
                                                       !.fileData = data,
                                                       !.fileHash = hashObject(data)]]
            /\ pc' = [pc EXCEPT ![p] = "add_writeObject"]
            /\ out' = NoOut
    /\ UNCHANGED <<impl, repo, ghost, ipc>>

\* The same, were add to go on to the index without writing the object.
AddWriteObject_skipped(p) ==
    /\ pc[p] = "add_writeObject"
    /\ pc' = [pc EXCEPT ![p] = "add_readIndex"]
    /\ out' = NoOut
    /\ UNCHANGED <<fuel, impl, repo, sha1, loc, ghost, ipc>>

\* The same, were the object file named after the path added, not after the
\* digest of its text.
AddWriteObject_underPath(p) ==
    /\ pc[p] = "add_writeObject"
    /\ objects' = [h \in DOMAIN objects \cup {loc[p].file} |->
                      IF h = loc[p].file THEN loc[p].fileData ELSE objects[h]]
    /\ added' = added \cup {loc[p].fileData}
    /\ pc' = [pc EXCEPT ![p] = "add_readIndex"]
    /\ out' = NoOut
    /\ UNCHANGED <<fuel, impl, HEAD, index, fsys, sha1, loc, staged, history,
                   interrupted, killed, ipc>>

\* fs.writeFile(objects/<fileHash>, fileData); it rejects when the objects
\* directory is not there.
AddWriteObject(p) ==
    /\ pc[p] = "add_writeObject"
    /\ IF "objects" \in fsys
       THEN /\ objects' = [h \in DOMAIN objects \cup {loc[p].fileHash} |->
                              IF h = loc[p].fileHash THEN loc[p].fileData
                              ELSE objects[h]]
            /\ added' = added \cup {loc[p].fileData}
            /\ pc' = [pc EXCEPT ![p] = "add_readIndex"]
            /\ out' = NoOut
            /\ UNCHANGED loc
       ELSE /\ Throws(p, "add", "ENOENT objects")
            /\ UNCHANGED <<objects, added>>
    /\ UNCHANGED <<fuel, impl, HEAD, index, fsys, sha1, staged, history,
                   interrupted, killed, ipc>>

\* updateStagingArea, first half: read and parse the index.
AddReadIndex(p) ==
    /\ pc[p] = "add_readIndex"
    /\ IF "index" \in fsys
       THEN /\ loc' = [loc EXCEPT ![p].index = ParseFiles(index)]
            /\ pc' = [pc EXCEPT ![p] = "add_writeIndex"]
            /\ out' = NoOut
       ELSE Throws(p, "add", "ENOENT index")
    /\ UNCHANGED <<fuel, impl, repo, sha1, ghost, ipc>>

\* The list updateStagingArea writes back: the list read, with the entry pushed.
PushEntry(list, filePath, fileHash) ==
    Append(list, [path |-> filePath, hash |-> fileHash])

\* The same, were add to move the head to what it staged.
AddWriteIndex_moveHead(p) ==
    /\ pc[p] = "add_writeIndex"
    /\ index' = StringifyFiles(PushEntry(loc[p].index, loc[p].file, loc[p].fileHash))
    /\ HEAD' = loc[p].fileHash
    /\ staged' = staged \cup {[path |-> loc[p].file, hash |-> loc[p].fileHash]}
    /\ pc' = [pc EXCEPT ![p] = "idle"]
    /\ loc' = [loc EXCEPT ![p] = NoLoc]
    /\ out' = [NoOut EXCEPT !.op = "add", !.digest = loc[p].fileHash]
    /\ fsys' = fsys \cup {"index", "HEAD"}
    /\ UNCHANGED <<fuel, impl, objects, sha1, added, history, interrupted,
                   killed, ipc>>

\* updateStagingArea, second half: push the entry and write the index.
AddWriteIndex(p) ==
    /\ pc[p] = "add_writeIndex"
    /\ index' = StringifyFiles(PushEntry(loc[p].index, loc[p].file, loc[p].fileHash))
    /\ staged' = staged \cup {[path |-> loc[p].file, hash |-> loc[p].fileHash]}
    /\ pc' = [pc EXCEPT ![p] = "idle"]
    /\ loc' = [loc EXCEPT ![p] = NoLoc]
    /\ out' = [NoOut EXCEPT !.op = "add", !.digest = loc[p].fileHash]
    /\ fsys' = fsys \cup {"index"}
    /\ UNCHANGED <<fuel, impl, objects, HEAD, sha1, added, history, interrupted,
                   killed, ipc>>

\* ----------------------------------------------------------------- commit

\* commit, its first read: the index.  Nothing is checked about the list
\* read: an empty list goes on like any other.
CommitReadIndex(p, message) ==
    /\ pc[p] = "idle"
    /\ fuel > 0
    /\ fuel' = fuel - 1
    /\ IF "index" \in fsys
       THEN /\ loc' = [loc EXCEPT ![p] = [NoLoc EXCEPT !.index = ParseFiles(index),
                                                       !.message = message]]
            /\ pc' = [pc EXCEPT ![p] = "commit_readHead"]
            /\ out' = NoOut
       ELSE Throws(p, "commit", "ENOENT index")
    /\ UNCHANGED <<impl, repo, sha1, ghost, ipc>>

\* const parentCommit = await this.getCurrentHead()
CommitReadHead(p) ==
    /\ pc[p] = "commit_readHead"
    /\ loc' = [loc EXCEPT ![p].parent = getCurrentHead]
    /\ pc' = [pc EXCEPT ![p] = "commit_writeObject"]
    /\ out' = NoOut
    /\ UNCHANGED <<fuel, impl, repo, sha1, ghost, ipc>>

\* A record that names no parent, whatever HEAD held.
CommitData_orphan(p, now) ==
    [timeStamp |-> now, message |-> loc[p].message,
     files |-> loc[p].index, parent |-> Null]

\* A record whose files are the staged entries in the opposite order.
CommitData_reversed(p, now) ==
    [timeStamp |-> now, message |-> loc[p].message,
     files |-> [i \in 1..Len(loc[p].index) |->
                   loc[p].index[Len(loc[p].index) + 1 - i]],
     parent |-> loc[p].parent]

\* The record commit builds from what it read.
CommitData(p, now) ==
    [timeStamp |-> now, message |-> loc[p].message,
     files |-> loc[p].index, parent |-> loc[p].parent]

\* HEAD is written where the commit object should be: the two writes swapped.
CommitWriteObject_headFirst(p, now) ==
    LET text == StringifyCommit(CommitData(p, now))
        commitHash == hashObject(text)
    IN  /\ pc[p] = "commit_writeObject"
        /\ sha1' = Intern(sha1, text)
        /\ HEAD' = commitHash
        /\ loc' = [loc EXCEPT ![p].commitHash = commitHash]
        /\ pc' = [pc EXCEPT ![p] = "commit_writeHead"]
        /\ out' = NoOut
        /\ UNCHANGED <<fuel, impl, objects, index, fsys, ghost, ipc>>

\* Build the record, hash its text, fs.writeFile(objects/<commitHash>, text).
CommitWriteObject(p, now) ==
    LET text == StringifyCommit(CommitData(p, now))
        commitHash == hashObject(text)
    IN  /\ pc[p] = "commit_writeObject"
        /\ sha1' = Intern(sha1, text)
        /\ IF "objects" \in fsys
           THEN /\ objects' = [h \in DOMAIN objects \cup {commitHash} |->
                                  IF h = commitHash THEN text ELSE objects[h]]
                /\ loc' = [loc EXCEPT ![p].commitHash = commitHash]
                /\ pc' = [pc EXCEPT ![p] = "commit_writeHead"]
                /\ out' = NoOut
           ELSE /\ Throws(p, "commit", "ENOENT objects")
                /\ UNCHANGED objects
        /\ UNCHANGED <<fuel, impl, HEAD, index, fsys, ghost, ipc>>

\* The staging area is cleared where HEAD should be advanced.
CommitWriteHead_clearFirst(p) ==
    /\ pc[p] = "commit_writeHead"
    /\ index' = StringifyFiles(<< >>)
    /\ pc' = [pc EXCEPT ![p] = "commit_clearIndex"]
    /\ out' = NoOut
    /\ UNCHANGED <<fuel, impl, objects, HEAD, fsys, sha1, loc, ghost, ipc>>

\* fs.writeFile(headPath, commitHash)
CommitWriteHead(p) ==
    /\ pc[p] = "commit_writeHead"
    /\ HEAD' = loc[p].commitHash
    /\ fsys' = fsys \cup {"HEAD"}
    /\ pc' = [pc EXCEPT ![p] = "commit_clearIndex"]
    /\ out' = NoOut
    /\ UNCHANGED <<fuel, impl, objects, index, sha1, loc, ghost, ipc>>

\* fs.writeFile(indexPath, "[]"), and the method returns.
CommitClearIndex(p) ==
    /\ pc[p] = "commit_clearIndex"
    /\ index' = StringifyFiles(<< >>)
    /\ history' = Append(history, loc[p].commitHash)
    /\ pc' = [pc EXCEPT ![p] = "idle"]
    /\ loc' = [loc EXCEPT ![p] = NoLoc]
    /\ out' = [NoOut EXCEPT !.op = "commit", !.digest = loc[p].commitHash]
    /\ fsys' = fsys \cup {"index"}
    /\ UNCHANGED <<fuel, impl, objects, HEAD, sha1, added, staged, interrupted,
                   killed, ipc>>

\* The process dies (is killed, loses power) between two awaited calls, of
\* the method or of init.
Crash(p) ==
    /\ pc[p] # "idle" \/ ipc[p] # "off"
    /\ interrupted' = (interrupted \/ InCommit(p))
    /\ killed' = TRUE
    /\ pc' = [pc EXCEPT ![p] = "idle"]
    /\ loc' = [loc EXCEPT ![p] = NoLoc]
    /\ ipc' = [ipc EXCEPT ![p] = "off"]
    /\ out' = NoOut
    /\ UNCHANGED <<fuel, impl, repo, sha1, added, staged, history>>

\* -------------------------------------------------------------------- log

RECURSIVE LogWalk(_, _)
\* The loop of log from `current`: the digests it prints, in the order it
\* prints them, and how it ends.  Groot.mjs parses the object it reads and
\* throws when there is none or it is no record; part_000 asks getCommitData,
\* which answers null for both, and breaks.  A walk of more steps than there
\* are objects has met a digest twice and goes on for ever.
LogWalk(current, steps) ==
    IF ~TruthyRef(current) THEN [visited |-> << >>, status |-> "ok"]
    ELSE IF steps = 0 THEN [visited |-> << >>, status |-> "loops"]
    ELSE IF ~Stored(current) \/ ~IsCommitText(objects[current])
         THEN [visited |-> << >>,
               status |-> IF impl = "ts" THEN "ok" ELSE "throws"]
    ELSE LET rest == LogWalk(ParseCommit(objects[current]).parent, steps - 1)
         IN  [visited |-> <<current>> \o rest.visited, status |-> rest.status]

\* log: walk the parent links from the current head.
Log(p) ==
    /\ pc[p] = "idle"
    /\ LET walk == LogWalk(getCurrentHead, Cardinality(DOMAIN objects) + 1)
       IN  out' = [NoOut EXCEPT !.op = "log", !.status = walk.status,
                                !.visited = walk.visited,
                                !.failed = (walk.status = "throws")]
    /\ UNCHANGED <<impl, repo, sha1, pc, loc, ghost, fuel, ipc>>

\* ------------------------------------------------------------------- show

\* What a function that found nothing returns (undefined, or null).
Undefined == <<Null>>

\* `if (text)`: undefined, null and the empty text are all falsy.
Truthy(text) == text # Undefined /\ text # << >>

\* getParentFileContent: the content of the first entry of the parent's files
\* with this path, or nothing.
getParentFileContent(parentCommitData, filePath) ==
    LET hits == {i \in 1..Len(parentCommitData.files) :
                    parentCommitData.files[i].path = filePath}
    IN  IF hits = {} THEN Undefined
        ELSE LET first == CHOOSE i \in hits : \A j \in hits : i <= j
             IN  objects[parentCommitData.files[first].hash]

\* The body of showCommitDiff's loop for one file of the commit: what is
\* reported for it, and the two texts handed to diffLines when it is a diff.
ShowFile(commitData, file) ==
    LET fileContent == objects[file.hash]
        base == [path |-> file.path, content |-> fileContent,
                 report |-> "First Commit", old |-> Undefined]
    IN  IF ~TruthyRef(commitData.parent) THEN base
        ELSE IF ~Stored(commitData.parent) \/ ~IsCommitText(objects[commitData.parent])
             THEN [base EXCEPT !.report = IF impl = "ts" THEN "nothing" ELSE "throws"]
        ELSE LET parentFileContent ==
                     getParentFileContent(ParseCommit(objects[commitData.parent]),
                                          file.path)
             IN  IF Truthy(parentFileContent)
                 THEN [base EXCEPT !.report = "Diff", !.old = parentFileContent]
                 ELSE [base EXCEPT !.report = "New File Content"]

\* showCommitDiff(commitHash).  No object under the digest: "Commit not
\* found" is printed and the method returns.  An object that is no record:
\* Groot.mjs throws in JSON.parse, part_000 reports it as not found.
Show(p, commitHash) ==
    /\ pc[p] = "idle"
    /\ IF ~Stored(commitHash)
       THEN out' = [NoOut EXCEPT !.op = "show", !.status = "Commit not found",
                                 !.digest = commitHash]
       ELSE IF ~IsCommitText(objects[commitHash])
       THEN out' = [NoOut EXCEPT !.op = "show", !.digest = commitHash,
                        !.status = IF impl = "ts" THEN "Commit not found" ELSE "throws",
                        !.failed = (impl # "ts")]
       ELSE LET commitData == ParseCommit(objects[commitHash])
            IN  out' = [NoOut EXCEPT !.op = "show", !.digest = commitHash,
                            !.files = [i \in 1..Len(commitData.files) |->
                                          ShowFile(commitData, commitData.files[i])]]
    /\ UNCHANGED <<impl, repo, sha1, pc, loc, ghost, fuel, ipc>>

\* ------------------------------------------------------------------- init

\* new Groot(): the constructor calls init and does not await it.  init runs
\* up to its first awaited call; the caller goes on with the handle.
Construct(p) ==
    /\ pc[p] = "idle"
    /\ ipc[p] = "off"
    /\ ipc' = [ipc EXCEPT ![p] = "mkdir"]
    /\ out' = NoOut
    /\ UNCHANGED <<impl, repo, sha1, pc, loc, ghost, fuel>>

\* fs.mkdir(objects, {recursive: true}): makes what is missing, never fails
\* on what is there.
InitMkdir(p) ==
    /\ ipc[p] = "mkdir"
    /\ fsys' = fsys \cup {"objects"}
    /\ ipc' = [ipc EXCEPT ![p] = "writeHead"]
    /\ out' = NoOut
    /\ UNCHANGED <<impl, objects, HEAD, index, sha1, pc, loc, ghost, fuel>>

\* What init's catch prints; init itself never rejects.
AlreadyInitialised == [NoOut EXCEPT !.op = "init", !.status = "Already initialised"]

\* The same call without the "wx" flag: the file is written over.
InitWriteHead_overwrite(p) ==
    /\ ipc[p] = "writeHead"
    /\ HEAD' = EmptyString
    /\ fsys' = fsys \cup {"HEAD"}
    /\ ipc' = [ipc EXCEPT ![p] = "writeIndex"]
    /\ out' = NoOut
    /\ UNCHANGED <<impl, objects, index, sha1, pc, loc, ghost, fuel>>

\* fs.writeFile(HEAD, "", {flag: "wx"}): it rejects when the file exists, the
\* catch logs "Already initialised" and init is over.
InitWriteHead(p) ==
    /\ ipc[p] = "writeHead"
    /\ IF "HEAD" \in fsys
       THEN /\ ipc' = [ipc EXCEPT ![p] = "done"]
            /\ out' = AlreadyInitialised
            /\ UNCHANGED <<HEAD, fsys>>
       ELSE /\ HEAD' = EmptyString
            /\ fsys' = fsys \cup {"HEAD"}
            /\ ipc' = [ipc EXCEPT ![p] = "writeIndex"]
            /\ out' = NoOut
    /\ UNCHANGED <<impl, objects, index, sha1, pc, loc, ghost, fuel>>

\* fs.writeFile(index, JSON.stringify([]), {flag: "wx"}), in the same try.
InitWriteIndex(p) ==
    /\ ipc[p] = "writeIndex"
    /\ IF "index" \in fsys
       THEN /\ out' = AlreadyInitialised
            /\ UNCHANGED <<index, fsys>>
       ELSE /\ index' = StringifyFiles(<< >>)
            /\ fsys' = fsys \cup {"index"}
            /\ out' = NoOut
    /\ ipc' = [ipc EXCEPT ![p] = "done"]
    /\ UNCHANGED <<impl, objects, HEAD, sha1, pc, loc, ghost, fuel>>

\* The process ends: the command and init have both run to their end.
Exit(p) ==
    /\ pc[p] = "idle"
    /\ ipc[p] = "done"
    /\ ipc' = [ipc EXCEPT ![p] = "off"]
    /\ out' = NoOut
    /\ UNCHANGED <<impl, repo, sha1, pc, loc, ghost, fuel>>

\* ------------------------------------------------------------------- Next

Step(p) ==
    \/ \E file \in Paths, data \in FileContents \cup {NoFile} : AddReadFile(p, file, data)
    \/ AddWriteObject(p)
    \/ AddReadIndex(p)
    \/ AddWriteIndex(p)
    \/ \E message \in Messages : CommitReadIndex(p, message)
    \/ CommitReadHead(p)
    \/ \E now \in TimeStamps : CommitWriteObject(p, now)
    \/ CommitWriteHead(p)
    \/ CommitClearIndex(p)
    \/ Crash(p)
    \/ Log(p)
    \/ \E commitHash \in 1..(Len(sha1) + 1) : Show(p, commitHash)

\* Independent processes against one repository.
Next == \E p \in Procs : Step(p)

Spec == Init /\ [][Next]_vars

\* One process at a time: commands run one after the other.
NextSeq == Step(1)

SpecSeq == InitSeq /\ [][NextSeq]_vars

\* Damage to the disk: the parent field of a stored commit record comes to
\* name another stored record.  log reads whatever the object file holds.
Corrupt(h, g) ==
    /\ \A p \in Procs : pc[p] = "idle"
    /\ ParseCommit(objects[h]).parent # g
    /\ objects' = [objects EXCEPT
                     ![h] = StringifyCommit([ParseCommit(objects[h])
                                                EXCEPT !.parent = g])]
    /\ out' = NoOut
    /\ UNCHANGED <<impl, HEAD, index, fsys, sha1, pc, loc, ghost, fuel, ipc>>

InitCorrupt == Fresh /\ fuel = MaxOpsCorrupt

\* Commands one after the other on a disk that may get damaged.
NextCorrupt ==
    \/ Step(1)
    \/ \E h, g \in CommitObjects : Corrupt(h, g)

SpecCorrupt == InitCorrupt /\ [][NextCorrupt]_vars

\* A directory with no repository in it.
Empty ==
    /\ impl \in {"mjs", "ts"}
    /\ objects = << >>
    /\ HEAD = EmptyString
    /\ index = StringifyFiles(<< >>)
    /\ sha1 = << >>
    /\ pc = [p \in Procs |-> "idle"]
    /\ loc = [p \in Procs |-> NoLoc]
    /\ out = NoOut
    /\ added = {}
    /\ staged = {}
    /\ history = << >>
    /\ interrupted = FALSE
    /\ fsys = {}
    /\ ipc = [p \in Procs |-> "off"]
    /\ killed = FALSE

InitEmpty == Empty /\ fuel = MaxOpsInit

\* The handle of process p is made: its methods can be called.
Handle(p) == ipc[p] # "off"

\* One process at a time from an empty directory: each makes a handle, whose
\* init runs beside the methods called on it.
NextInit ==
    \/ Construct(1)
    \/ InitMkdir(1)
    \/ InitWriteHead(1)
    \/ InitWriteIndex(1)
    \/ Exit(1)
    \/ \E file \in Paths, data \in FileContents \cup {NoFile} :
           Handle(1) /\ AddReadFile(1, file, data)
    \/ AddWriteObject(1)
    \/ AddReadIndex(1)
    \/ AddWriteIndex(1)
    \/ \E message \in Messages : Handle(1) /\ CommitReadIndex(1, message)
    \/ CommitReadHead(1)
    \/ \E now \in TimeStamps : CommitWriteObject(1, now)
    \/ CommitWriteHead(1)
    \/ CommitClearIndex(1)
    \/ Crash(1)
    \/ Handle(1) /\ Log(1)
    \/ \E commitHash \in 1..(Len(sha1) + 1) : Handle(1) /\ Show(1, commitHash)

SpecInit == InitEmpty /\ [][NextInit]_vars

\* ---------------------------------------------------------------- helpers

Range(list) == {list[i] : i \in 1..Len(list)}

\* The entries the staging area holds.
IndexEntries == Range(ParseFiles(index))

\* getCommitData(h), parsed: the record stored under a commit's digest.
CommitAt(h) == ParseCommit(objects[h])

\* The commits reachable from HEAD by parent links.
Ancestors == Range(LogWalk(HEAD, Cardinality(DOMAIN objects) + 1).visited)

AllIdle == \A p \in Procs : pc[p] = "idle"

\* What a commit made on a fresh repository records as its parent, "no
\* parent": null in part_000, the empty text of the HEAD file in Groot.mjs.
\* Both end the loop of log.
NoParent == IF impl = "ts" THEN Null ELSE EmptyString

UniquePaths(files) ==
    \A i, j \in 1..Len(files) : i # j => files[i].path # files[j].path

\* ----------------------------------------------------------------- claims

\* C1: every content that was added is stored under its digest with exactly
\* that content, and is the only object with that content; an add of a
\* content that is stored already leaves the object store as it was.
C1_PutGetOneCopy ==
    /\ [](\A c \in added :
            /\ Stored(hashObject(c))
            /\ objects[hashObject(c)] = c
            /\ {h \in DOMAIN objects : objects[h] = c} = {hashObject(c)})
    /\ [][\A p \in Procs :
            (pc[p] = "add_writeObject" /\ pc'[p] = "add_readIndex"
                /\ loc[p].fileData \in added) => objects' = objects]_vars

\* C1 witness: the same content was added under two paths, stored once.
C1_Witness ==
    \E e1, e2 \in staged :
        /\ e1.path # e2.path
        /\ e1.hash = e2.hash
        /\ Stored(e1.hash)
        /\ Cardinality(added) = 2

C3_CommitFilesRoundTrip ==
    \A p \in {1} :
        pc[p] \in {"commit_writeHead", "commit_clearIndex"} =>
            /\ Stored(loc[p].commitHash)
            /\ IsCommitText(objects[loc[p].commitHash])
            /\ CommitAt(loc[p].commitHash).files = ParseFiles(index)

\* C3 witness: a commit was stored from a staging area of two entries whose
\* paths are not in sorted order.
C3_Witness ==
    /\ pc[1] = "commit_writeHead"
    /\ Len(ParseFiles(index)) = 2
    /\ ParseFiles(index)[1].path = 2
    /\ ParseFiles(index)[2].path = 1
    /\ ParseFiles(index)[1].hash # ParseFiles(index)[2].hash

\* C4: the staging area never holds two entries for one path, and neither
\* does the files list of any stored commit.
C4_OneEntryPerPath ==
    /\ UniquePaths(ParseFiles(index))
    /\ \A h \in CommitObjects : UniquePaths(CommitAt(h).files)

\* C5: a commit that found the staging area empty writes no object, does not
\* advance HEAD, leaves the staging area alone and reports no commit.
C5_EmptyCommitRejected ==
    [][\A p \in {1} :
        (InCommit(p) /\ loc[p].index = << >>) =>
            /\ objects' = objects
            /\ HEAD' = HEAD
            /\ index' = index
            /\ out'.op # "commit"]_vars

\* C6: HEAD is always empty or the digest of a commit record that is stored
\* whole; between the write of the commit object and the write of HEAD the
\* object is there under its digest while HEAD holds what it held when the
\* commit began, and a process dying there leaves both as they are.
C6_HeadNeverDangling ==
    /\ [](/\ (HEAD = EmptyString \/ (Stored(HEAD) /\ IsCommitText(objects[HEAD])))
          /\ \A p \in {1} :
                pc[p] = "commit_writeHead" =>
                    /\ Stored(loc[p].commitHash)
                    /\ IsCommitText(objects[loc[p].commitHash])
                    /\ CommitAt(loc[p].commitHash).files = loc[p].index
                    /\ CommitAt(loc[p].commitHash).parent = loc[p].parent
                    /\ getCurrentHead = loc[p].parent)
    /\ [][\A p \in {1} :
            (pc[p] = "commit_writeHead" /\ pc'[p] = "idle") =>
                /\ HEAD' = HEAD
                /\ loc[p].commitHash \in DOMAIN objects'
                /\ objects'[loc[p].commitHash] = objects[loc[p].commitHash]]_vars

\* C6 witness: a second commit is stored and HEAD still names the first.
C6_Witness ==
    /\ pc[1] = "commit_writeHead"
    /\ HEAD # EmptyString
    /\ HEAD # loc[1].commitHash
    /\ Stored(loc[1].commitHash)

\* C7: with one process, whatever was staged is still in the staging area or
\* is in the files of the commit HEAD names or of one of its ancestors.
C7_NoStagedEntryLost ==
    \A e \in staged :
        \/ e \in IndexEntries
        \/ \E h \in Ancestors : e \in Range(CommitAt(h).files)

\* C7 witness: a process died after HEAD was advanced and before the staging
\* area was cleared; the entry is in both.
C7_Witness ==
    /\ AllIdle
    /\ interrupted
    /\ history = << >>
    /\ HEAD # EmptyString
    /\ \E e \in staged : e \in IndexEntries /\ e \in Range(CommitAt(HEAD).files)

\* C8: when adds of different paths have run side by side and no commit has
\* cleared the staging area, the staging area holds the entries of all of them.
C8_ConcurrentAddsKeepBoth ==
    (AllIdle /\ history = << >>) =>
        \A e1, e2 \in staged :
            e1.path # e2.path => (e1 \in IndexEntries /\ e2 \in IndexEntries)

\* C9: when one add has staged an entry while commits ran beside it, the entry
\* is still in the staging area or is in the files of a commit reachable from
\* HEAD.
C9_AddBesideCommitKept ==
    (AllIdle /\ Cardinality(staged) = 1) =>
        \A e \in staged :
            \/ e \in IndexEntries
            \/ \E h \in Ancestors : e \in Range(CommitAt(h).files)

\* C10: for a commit with a parent, show reports a file as new exactly when
\* its path is not among the parent's files, and as a diff against the
\* parent's version whenever it is.
C10_NewFileIffPathAbsent ==
    (out.op = "show" /\ out.status = "ok" /\ Stored(out.digest)) =>
        LET commitData == CommitAt(out.digest)
        IN  TruthyRef(commitData.parent) =>
                \A i \in 1..Len(out.files) :
                    LET inParent == \E f \in Range(CommitAt(commitData.parent).files) :
                                        f.path = out.files[i].path
                    IN  /\ (out.files[i].report = "New File Content") <=> ~inParent
                        /\ (out.files[i].report = "Diff") <=> inParent

\* C11: init on a repository that is initialised already, whatever adds and
\* commits came before, raises no error and leaves the head, the staging
\* area and every object as they were: each of its awaited calls does.
C11_InitIdempotent ==
    [][\A p \in Procs :
         (/\ fsys = AllFiles
          /\ ipc[p] \in {"mkdir", "writeHead", "writeIndex"}
          /\ ipc'[p] \notin {ipc[p], "off"})
         => /\ repo' = repo
            /\ ~out'.failed
            /\ ipc'[p] \in {"writeHead", "done"}]_vars

\* C11 witness: init has run to its end on a repository that holds a commit
\* and a staged entry, and found it initialised.
C11_Witness ==
    /\ ipc[1] = "done"
    /\ out = AlreadyInitialised
    /\ fsys = AllFiles
    /\ history # << >>
    /\ HEAD = history[Len(history)]
    /\ IndexEntries # {}

\* C12: add of a path that does not exist fails with the file-not-found
\* error and leaves the object store, the staging area and the head as they
\* were; no add goes on without the text of an existing file.
C12_AddMissingFileFails ==
    /\ [](\A p \in Procs : InAdd(p) => loc[p].fileData \in FileContents)
    /\ [][(out'.op = "add" /\ out'.status = "ENOENT")
            => /\ out'.failed
               /\ repo' = repo
               /\ staged' = staged
               /\ added' = added
               /\ pc' = pc]_vars

\* C12 witness: add of a missing path has failed on a repository that holds
\* objects, a commit and a staged entry.
C12_Witness ==
    /\ out.op = "add"
    /\ out.status = "ENOENT"
    /\ out.failed
    /\ HEAD # EmptyString
    /\ IndexEntries # {}
    /\ AllIdle

\* C13: show of a digest under which nothing is stored ends with an error
\* result, not with a normal return after a printed message, and reports no
\* file.
C13_ShowUnknownFails ==
    (out.op = "show" /\ ~Stored(out.digest)) =>
        /\ out.failed
        /\ out.files = << >>

\* The digests log would print from the head, were it to stop after as many
\* steps as there are objects and one more.
WalkFromHead == LogWalk(getCurrentHead, Cardinality(DOMAIN objects) + 1).visited

\* The parent links reachable from the head come back to a digest.
Cyclic ==
    \E i, j \in 1..Len(WalkFromHead) : i < j /\ WalkFromHead[i] = WalkFromHead[j]

\* C14: log always comes to an end; when the parent links reachable from the
\* head form a cycle it ends with the Corrupt error.
C14_LogEndsOnCycle ==
    out.op = "log" =>
        /\ out.status # "loops"
        /\ Cyclic => out.status = "Corrupt"

\* C15: the head is changed by commit only, by its write of HEAD: no step of
\* add, log, show, or of init on a repository that has a HEAD file, changes
\* the value of the head.
C15_HeadChangedByCommitOnly ==
    [][("HEAD" \in fsys /\ HEAD' # HEAD) =>
          \E p \in Procs : /\ pc[p] = "commit_writeHead"
                           /\ pc'[p] = "commit_clearIndex"
                           /\ HEAD' = loc[p].commitHash]_vars

\* C15 witness: an add has run to its end after a commit, on a handle whose
\* init has ended, and the head is still that commit.
C15_Witness ==
    /\ history # << >>
    /\ HEAD = history[Len(history)]
    /\ out.op = "add"
    /\ ~out.failed
    /\ ipc[1] = "done"

\* C16: every stored object, blob or commit record, is stored under the
\* digest of its content, and no step removes an object or changes the
\* content of one that is stored.
C16_ObjectsWriteOnce ==
    /\ [](\A h \in DOMAIN objects : hashObject(objects[h]) = h)
    /\ [][\A h \in DOMAIN objects :
            h \in DOMAIN objects' /\ objects'[h] = objects[h]]_vars

\* C16 witness: a content that a stored commit holds has been added again,
\* its object written a second time.
C16_Witness ==
    /\ out.op = "add"
    /\ ~out.failed
    /\ \E h \in CommitObjects :
           \E i \in 1..Len(CommitAt(h).files) : CommitAt(h).files[i].hash = out.digest

\* C17: a commit made while the HEAD file is empty records null as its
\* parent, and any other commit records the digest the head held when it
\* began.  Looked at where the record is stored and HEAD not yet advanced.
C17_ParentIsHeadOrNull ==
    \A p \in Procs :
        pc[p] = "commit_writeHead" =>
            CommitAt(loc[p].commitHash).parent =
                IF HEAD = EmptyString THEN Null ELSE HEAD

C19_FirstCommandFindsRepository ==
    (/\ ~killed
     /\ fuel = MaxOpsInit - 1
     /\ out.op \in {"add", "commit"})
    => out.status \notin {"ENOENT objects", "ENOENT index"}

\* C20: once init has run to its end, from whatever state it found, the
\* objects directory, the HEAD file and the index file all exist.
C20_InitCompletes ==
    \A p \in Procs : ipc[p] = "done" => fsys = AllFiles

============================================================================
